---------------------------- MODULE Spec2Model ----------------------------
(***************************************************************************)
(* Authentication, lockout and login auditing of the Geriatric             *)
(* Administration System (apps/core): the User lockout fields, the three   *)
(* authentication backends, the chain Django builds from                   *)
(* AUTHENTICATION_BACKENDS, the login form and the login views.            *)
(*                                                                         *)
(* Time is a counter of ticks.  A handler runs at one instant: every       *)
(* timezone.now() of one handler reads the same value of now.              *)
(***************************************************************************)
EXTENDS Integers, Sequences, FiniteSets, TLC

(***************************************************************************)
(* Bounds of the model.                                                    *)
(***************************************************************************)
MaxTime == 3
LockoutTicks == 2
ExpiryTicks == 2
NProcs == 4
MaxTokens == 2
TokenTicks == 2
NResetProcs == 2
NAssignProcs == 2
MaxAudit == 6
MaxRequests == 3
NThreads == 2
MaxCounted == 3

(***************************************************************************)
(* Program constants.                                                      *)
(***************************************************************************)
MAX_LOGIN_ATTEMPTS == 3
FORM_ATTEMPTS_SHOWN == 5

NULL == -1
NOBODY == "nobody"

Users == {"u1"}
Centers == {"c1"}
Passwords == {"pw1", "pw2"}
Identifiers == {"alice", "E001", "ghost"}
TotpInputs == {"none", "valid", "invalid"}

username_of == [u \in Users |-> "alice"]
employee_id_of == [u \in Users |-> "E001"]

VARIABLES
    now,                \* timezone.now(), in ticks
    users,              \* table core_user: one row per account
    user_centers,       \* active centers linked to each account (User.centers)
    session,            \* the client's session
    last,               \* the last operation: its input, result and audit entries
    pc, loaded,         \* concurrent attempts: position and in-memory User object
    lock_transitions    \* concurrent attempts: writes that took the row from unlocked to locked

VARIABLES
    reset_rows,         \* table core_user: the password and the password-reset columns
    tokens_issued,      \* password-reset tokens generated so far
    rpc, rtoken, rform, \* reset confirmations: position, token of the URL, form.user
    token_uses          \* password changes completed with each token

VARIABLES
    assignments,        \* table core_user_center_assignment: one row per (user, center)
    center_active,      \* table core_geriatric_center: is_active of each center
    multi_admin,        \* core_user.is_multi_center_admin
    current_center_id,  \* session['current_center_id'] of the signed-in user
    resolved,           \* the centers the middleware resolved for the last request
    apc, aargs          \* assign_user_to_center calls: position and arguments

VARIABLES
    audit_trail,        \* table core_audit_trail, in the order of insertion
    audit_result        \* the last audited request: whether its audit writes worked, its status

VARIABLES
    emergency           \* the emergency access settings and the emergency code last supplied

VARIABLES
    accounts            \* table core_user: the identifiers of each account

VARIABLES
    ctx_request,        \* per worker thread: the request it is serving
    ctx_locals,         \* per worker thread: its view of middleware._thread_locals
    ctx_entry           \* the audit row AuditMixin wrote last, and the thread that wrote it

authVars == <<users, user_centers, session, last, pc, loaded, lock_transitions>>

resetVars == <<reset_rows, tokens_issued, rpc, rtoken, rform, token_uses>>

centerVars == <<assignments, center_active, multi_admin, current_center_id, resolved,
                apc, aargs>>

auditVars == <<audit_trail, audit_result>>

\* The variables of the components other than authentication.
contextVars == <<ctx_request, ctx_locals, ctx_entry>>

restVars == <<accounts, contextVars>>

extVars == <<resetVars, centerVars, auditVars, emergency, restVars>>

otherThanReset == <<authVars, centerVars, auditVars, emergency, restVars>>

otherThanCenters == <<authVars, resetVars, auditVars, emergency, restVars>>

\* What the audited requests leave alone.
auditFrame == <<user_centers, last, pc, loaded, lock_transitions,
                assignments, center_active, multi_admin, resolved, apc, aargs,
                rpc, rtoken, rform, token_uses, emergency, restVars>>

vars == <<now, authVars, extVars>>

Procs == 1..NProcs

(***************************************************************************)
(* Model.save(update_fields=fields): the named fields of the in-memory     *)
(* object obj overwrite those of the stored row; nothing else is written.  *)
(***************************************************************************)
SaveFields(row, obj, fields) ==
    [f \in DOMAIN row |-> IF f \in fields THEN obj[f] ELSE row[f]]

Save(db, u, obj, fields) ==
    [db EXCEPT ![u] = SaveFields(db[u], obj, fields)]

\* Mutant: a lock never expires.
is_account_locked_until_unlocked(a, t) ==
    a.account_locked_until # NULL

is_account_locked(a, t) ==
    IF a.account_locked_until # NULL THEN t < a.account_locked_until ELSE FALSE

lock_account(a, t, duration) ==
    [a EXCEPT !.account_locked_until = t + duration]

\* Mutant: the account is locked only when the counter is exactly at the threshold.
record_failed_login_at_threshold_only(a, t) ==
    LET a1 == [a EXCEPT !.failed_login_attempts = @ + 1, !.last_failed_login = t]
    IN  IF a1.failed_login_attempts = MAX_LOGIN_ATTEMPTS
        THEN lock_account(a1, t, LockoutTicks)
        ELSE a1

record_failed_login(a, t) ==
    LET a1 == [a EXCEPT !.failed_login_attempts = @ + 1, !.last_failed_login = t]
    IN  IF a1.failed_login_attempts >= MAX_LOGIN_ATTEMPTS
        THEN lock_account(a1, t, LockoutTicks)
        ELSE a1

FailedLoginFields == {"failed_login_attempts", "last_failed_login", "account_locked_until"}

record_successful_login(a, t) ==
    [a EXCEPT !.failed_login_attempts = 0, !.last_failed_login = NULL, !.last_login = t]

SuccessfulLoginFields == {"failed_login_attempts", "last_failed_login", "last_login"}

\* Mutant: the age of the password is not looked at.
needs_password_change_flag_only(a, t) == a.must_change_password

needs_password_change(a, t) ==
    IF a.must_change_password THEN TRUE
    ELSE IF a.password_changed_at # NULL THEN t > a.password_changed_at + ExpiryTicks
    ELSE FALSE

check_password(a, password) == a.password = password

(***************************************************************************)
(* One AuditTrail row, reduced to its action, the reason (or the           *)
(* distinguishing key) of its additional_data, and the code that writes    *)
(* it.  A row written by a handler of apps/core/signals.py has             *)
(* by = "signal": it is written only in a deployment whose start-up        *)
(* imports that module (no module under apps/ does).                       *)
(***************************************************************************)
Entry(action, reason, by) == [action |-> action, reason |-> reason, by |-> by]

_log_authentication_attempt(reason) == <<Entry("LOGIN", reason, "backend")>>

\* The result of a backend: the user it returns, the table after it ran, the
\* audit rows it wrote, the marks it left on the returned object and, in a chain,
\* the backend that returned the user.
Result(user, db, log, marks) ==
    [user |-> user, db |-> db, log |-> log, marks |-> marks, backend |-> "none"]

By(r, backend) == [r EXCEPT !.backend = IF r.user = NOBODY THEN "none" ELSE backend]

\* Mutant: the lookup does not filter on is_active.
ActiveMatches_any(db, identifier) ==
    {u \in Users : username_of[u] = identifier \/ employee_id_of[u] = identifier}

ActiveMatches(db, identifier) ==
    {u \in Users : (username_of[u] = identifier \/ employee_id_of[u] = identifier)
                   /\ db[u].is_active}

HasActiveCenter(u) == user_centers[u] # {}

GeriatricAuthenticate(db, username, password, t) ==
    LET found == ActiveMatches(db, username) IN
    IF found = {} THEN
        Result(NOBODY, db, _log_authentication_attempt("user_not_found"), {})
    ELSE IF Cardinality(found) > 1 THEN
        Result(NOBODY, db, _log_authentication_attempt("multiple_users_found"), {})
    ELSE
    LET u == CHOOSE x \in found : TRUE
        a == db[u]
    IN
    IF is_account_locked(a, t) THEN
        Result(NOBODY, db, _log_authentication_attempt("account_locked"), {})
    ELSE IF check_password(a, password) THEN
        LET pcr == needs_password_change(a, t)
            log1 == IF pcr THEN _log_authentication_attempt("password_change_required")
                    ELSE <<>>
            marks == IF pcr THEN {"_password_change_required"} ELSE {}
        IN
        IF ~a.is_superuser /\ ~a.is_multi_center_admin /\ ~HasActiveCenter(u) THEN
            Result(NOBODY, db, log1 \o _log_authentication_attempt("no_center_assignment"), {})
        ELSE
            Result(u,
                   Save(db, u, record_successful_login(a, t), SuccessfulLoginFields),
                   log1 \o _log_authentication_attempt("success"),
                   marks)
    ELSE
        Result(NOBODY,
               Save(db, u, record_failed_login(a, t), FailedLoginFields),
               _log_authentication_attempt("invalid_password"),
               {})

(***************************************************************************)
(* TwoFactorAuthenticationBackend.authenticate.  totp is the token the     *)
(* caller supplies: "none" for no token, "valid" for a token that          *)
(* _verify_totp_token accepts against the account's secret, "invalid" for  *)
(* one it rejects (also the case of an account with no secret).            *)
(***************************************************************************)
_verify_totp_token(totp) == totp = "valid"

\* The part after super().authenticate(), whose result is r.
second_factor(r, totp) ==
    IF r.user = NOBODY THEN r
    ELSE IF r.db[r.user].two_factor_enabled THEN
        IF totp = "none" THEN
            Result(r.user, r.db,
                   r.log \o _log_authentication_attempt("2fa_token_required"),
                   r.marks \cup {"_requires_2fa"})
        ELSE IF ~_verify_totp_token(totp) THEN
            Result(NOBODY, r.db,
                   r.log \o _log_authentication_attempt("invalid_2fa_token"), {})
        ELSE
            Result(r.user, r.db,
                   r.log \o _log_authentication_attempt("2fa_success"), r.marks)
    ELSE r

TwoFactorAuthenticate(db, username, password, totp, t) ==
    second_factor(GeriatricAuthenticate(db, username, password, t), totp)

(***************************************************************************)
(* EmergencyAccessBackend.authenticate as the chain calls it: the          *)
(* credentials hold no emergency_code, so it returns None before it reads  *)
(* or writes anything.                                                     *)
(***************************************************************************)
EmergencyAuthenticateNoCode(db) == Result(NOBODY, db, <<>>, {})

(***************************************************************************)
(* django.contrib.auth.backends.ModelBackend, the last entry of            *)
(* AUTHENTICATION_BACKENDS: the account whose username (not employee_id)   *)
(* matches, if the password is right and the account is active.  It reads  *)
(* no lockout field and writes nothing.                                    *)
(***************************************************************************)
ModelBackendAuthenticate(db, username, password) ==
    LET found == {u \in Users : username_of[u] = username} IN
    IF found = {} THEN Result(NOBODY, db, <<>>, {})
    ELSE LET u == CHOOSE x \in found : TRUE IN
         IF check_password(db[u], password) /\ db[u].is_active
         THEN Result(u, db, <<>>, {})
         ELSE Result(NOBODY, db, <<>>, {})

\* The receivers of apps/core/signals.py.
user_login_failed_handler == <<Entry("LOGIN", "invalid_credentials", "signal")>>

user_logged_in_handler == <<Entry("LOGIN", "login_successful", "signal")>>

user_logged_out_handler == <<Entry("LOGOUT", "logout", "signal")>>

(***************************************************************************)
(* django.contrib.auth.authenticate(request, username=, password=) over    *)
(* AUTHENTICATION_BACKENDS: the backends run in order, each on the table   *)
(* the one before left, until one returns a user; when none does,          *)
(* user_login_failed is sent.                                              *)
(***************************************************************************)
\* r1, r2 and r4 are what the first, the second and the fourth backend returned.
AfterModelBackend(r1, r2, r4) ==
    IF r4.user # NOBODY THEN By(Result(r4.user, r4.db, r1.log \o r2.log, {}), "model")
    ELSE Result(NOBODY, r4.db, r1.log \o r2.log \o user_login_failed_handler, {})

AfterTwoFactorBackend(r1, r2, username, password) ==
    IF r2.user # NOBODY
    THEN By(Result(r2.user, r2.db, r1.log \o r2.log, r2.marks), "two_factor")
    ELSE AfterModelBackend(r1, r2,
            ModelBackendAuthenticate(EmergencyAuthenticateNoCode(r2.db).db,
                                     username, password))

AfterGeriatricBackend(r1, username, password, t) ==
    IF r1.user # NOBODY THEN By(r1, "geriatric")
    ELSE AfterTwoFactorBackend(r1,
            TwoFactorAuthenticate(r1.db, username, password, "none", t),
            username, password)

ChainAuthenticate(db, username, password, t) ==
    AfterGeriatricBackend(GeriatricAuthenticate(db, username, password, t),
                          username, password, t)

(***************************************************************************)
(* The client's session.  user and backend are Django's _auth_user_id and  *)
(* _auth_user_backend; the other keys are the ones the views set.          *)
(***************************************************************************)
NoSession == [user |-> NOBODY, backend |-> "none", tfa_user_id |-> NOBODY,
              password_change_user_id |-> NOBODY, tfa_verified |-> FALSE]

\* Mutant: the lock is not looked at.
get_user_active_only(db, u, t) ==
    IF db[u].is_active THEN u ELSE NOBODY

\* GeriatricAuthenticationBackend.get_user
get_user(db, u, t) ==
    IF db[u].is_active /\ ~is_account_locked(db[u], t) THEN u ELSE NOBODY

\* request.user: the session's user as the session's backend loads it.
RequestUser(s, db, t) ==
    IF s.user = NOBODY THEN NOBODY
    ELSE IF s.backend \in {"geriatric", "two_factor"} THEN get_user(db, s.user, t)
    ELSE IF db[s.user].is_active THEN s.user ELSE NOBODY

\* django.contrib.auth.login(request, user) and the receivers of user_logged_in.
login(s, u, backend) == [s EXCEPT !.user = u, !.backend = backend]

\* AuditMiddleware.process_response for a POST: _log_data_modification
_log_data_modification(requestUser, status) ==
    IF requestUser = NOBODY \/ status >= 400 THEN <<>>
    ELSE <<Entry("CREATE", "data_modification", "middleware")>>

(***************************************************************************)
(* What a view hands back: the table, the session, the audit rows, the     *)
(* outcome shown to the client, and whether login() ran.                   *)
(***************************************************************************)
Response(db, s, log, outcome, user, issued) ==
    [db |-> db, session |-> s, log |-> log, outcome |-> outcome, user |-> user,
     issued |-> issued]

FormMatches(db, identifier) ==
    {u \in Users : username_of[u] = identifier \/ employee_id_of[u] = identifier}

_log_login_failure == <<Entry("LOGIN", "form_validation_failed", "view")>>

_log_login_success == <<Entry("LOGIN", "web_form_success", "view")>>

\* SecureLoginView.form_invalid, then the response (200, the form again).
form_invalid(db, s, log, outcome) ==
    Response(db, s, log \o _log_login_failure, outcome, NOBODY, FALSE)

\* SecureLoginView.form_valid for the user and the marks the form holds.
form_valid(db, s, log, r) ==
    IF "_password_change_required" \in r.marks THEN
        Response(db, [s EXCEPT !.password_change_user_id = r.user], log,
                 "redirect_password_change", r.user, FALSE)
    ELSE IF "_requires_2fa" \in r.marks THEN
        Response(db, [s EXCEPT !.tfa_user_id = r.user], log, "redirect_2fa", r.user, FALSE)
    ELSE
        Response(db, login(s, r.user, r.backend),
                 log \o user_logged_in_handler \o _log_login_success
                     \o _log_data_modification(r.user, 302),
                 "logged_in", r.user, TRUE)

(***************************************************************************)
(* POST of the login form: SecureLoginView with CustomAuthenticationForm.  *)
(* clean() loads the account itself, calls the chain with user.username    *)
(* and, when the chain returns nobody, calls record_failed_login on the    *)
(* object it loaded before the chain ran.                                  *)
(***************************************************************************)
\* clean() after authenticate(), whose result is r; user is the object clean() loaded.
AfterAuthenticate(s, u, user, r, t) ==
    IF r.user = NOBODY THEN
        LET failed == record_failed_login(user, t)
            db2 == Save(r.db, u, failed, FailedLoginFields)
        IN  form_invalid(db2, s, r.log,
                         IF FORM_ATTEMPTS_SHOWN - failed.failed_login_attempts > 0
                         THEN "invalid_credentials_attempts_remaining"
                         ELSE "locked_too_many_attempts")
    ELSE IF needs_password_change(r.db[r.user], t) THEN
        form_invalid(r.db, s, r.log, "password_change_required")
    ELSE
        form_valid(Save(r.db, r.user, record_successful_login(r.db[r.user], t),
                        SuccessfulLoginFields),
                   s, r.log, r)

LoginForm(db, s, username, password, t) ==
    LET found == FormMatches(db, username) IN
    IF RequestUser(s, db, t) # NOBODY THEN
        Response(db, s, <<>>, "already_authenticated", NOBODY, FALSE)
    ELSE IF found = {} THEN
        form_invalid(db, s, <<>>, "invalid_credentials")
    ELSE IF Cardinality(found) > 1 THEN
        Response(db, s, <<>>, "server_error", NOBODY, FALSE)
    ELSE
    LET u == CHOOSE x \in found : TRUE
        user == db[u]
    IN
    IF is_account_locked(user, t) THEN
        form_invalid(db, s, <<>>, "account_locked")
    ELSE IF ~user.is_active THEN
        form_invalid(db, s, <<>>, "account_deactivated")
    ELSE
        AfterAuthenticate(s, u, user, ChainAuthenticate(db, username_of[u], password, t), t)

(***************************************************************************)
(* POST of TwoFactorAuthView.  A valid token reaches login(request, user)  *)
(* with a user loaded by User.objects.get: the object names no backend     *)
(* and AUTHENTICATION_BACKENDS lists four, so django's login raises        *)
(* ValueError before it touches the session.                               *)
(***************************************************************************)
TwoFactorView(db, s, totp, t) ==
    IF s.tfa_user_id = NOBODY THEN
        Response(db, s, <<>>, "invalid_session", NOBODY, FALSE)
    ELSE IF ~db[s.tfa_user_id].is_active THEN
        Response(db, s, <<>>, "invalid_user", NOBODY, FALSE)
    ELSE IF totp = "none" THEN
        Response(db, s, <<>>, "token_required", NOBODY, FALSE)
    ELSE IF _verify_totp_token(totp) THEN
        Response(db, s, <<>>, "server_error", NOBODY, FALSE)
    ELSE
        Response(db, s, <<Entry("LOGIN", "invalid_2fa_token", "view")>>,
                 "invalid_code", NOBODY, FALSE)

(***************************************************************************)
(* POST of PasswordChangeRequiredView.  Without password_change_user_id    *)
(* in the session (or with an inactive account) the form is built without  *)
(* its user argument: TypeError.                                           *)
(***************************************************************************)
PasswordChangeFields == {"password", "password_changed_at", "must_change_password"}

PasswordChangeRequiredView(db, s, old_password, new_password, t) ==
    LET u == s.password_change_user_id IN
    IF u = NOBODY THEN
        Response(db, s, <<>>, "server_error", NOBODY, FALSE)
    ELSE IF ~db[u].is_active THEN
        Response(db, s, <<>>, "server_error", NOBODY, FALSE)
    ELSE IF ~check_password(db[u], old_password) THEN
        Response(db, s, <<>>, "current_password_incorrect", NOBODY, FALSE)
    ELSE
        Response(Save(db, u, [db[u] EXCEPT !.password = new_password,
                                           !.password_changed_at = t,
                                           !.must_change_password = FALSE],
                      PasswordChangeFields),
                 [s EXCEPT !.password_change_user_id = NOBODY],
                 <<Entry("UPDATE", "password_changed", "view")>>
                     \o _log_data_modification(RequestUser(s, db, t), 302),
                 "password_changed", u, FALSE)

\* SecureLogoutView.post: _log_logout, _cleanup_session, logout(request).
LogoutView(db, s, t) ==
    LET user == RequestUser(s, db, t) IN
    Response(db, NoSession,
             IF user = NOBODY THEN <<>>
             ELSE <<Entry("LOGOUT", "logout", "view")>> \o user_logged_out_handler,
             "logged_out", NOBODY, FALSE)

(***************************************************************************)
(* The record of an operation, kept for the properties: before is the row  *)
(* of the account the identifier names, as stored before the operation.    *)
(***************************************************************************)
Target(identifier) ==
    LET m == FormMatches(users, identifier)
    IN  IF m = {} THEN NOBODY ELSE CHOOSE u \in m : TRUE

NoRow == [is_active |-> FALSE, is_superuser |-> FALSE, is_multi_center_admin |-> FALSE,
          two_factor_enabled |-> FALSE, password |-> "pw1",
          must_change_password |-> FALSE, password_changed_at |-> NULL,
          failed_login_attempts |-> 0, last_failed_login |-> NULL,
          account_locked_until |-> NULL, last_login |-> NULL]

Op(op, identifier, password, totp, user, outcome, log, issued) ==
    [op |-> op, identifier |-> identifier, target |-> Target(identifier),
     password |-> password, totp |-> totp,
     user |-> user, outcome |-> outcome, log |-> log, session_issued |-> issued,
     before |-> IF Target(identifier) = NOBODY THEN NoRow ELSE users[Target(identifier)]]

NoOp == [op |-> "none", identifier |-> "ghost", target |-> NOBODY, password |-> "pw1",
         totp |-> "none", user |-> NOBODY, outcome |-> "none", log |-> <<>>,
         session_issued |-> FALSE, before |-> NoRow]

Idle == last.op = "none"

(***************************************************************************)
(* The components a specification does not exercise stay in these states.  *)
(***************************************************************************)
Tokens == 1..MaxTokens

ResetProcs == 1..NResetProcs

NoResetRow == [is_active |-> TRUE, password |-> "pw1", password_reset_token |-> NULL,
               password_reset_token_expires |-> NULL]

ResetIdle ==
    /\ reset_rows = [u \in Users |-> NoResetRow]
    /\ tokens_issued = 0
    /\ rpc = [p \in ResetProcs |-> "idle"]
    /\ rtoken = [p \in ResetProcs |-> NULL]
    /\ rform = [p \in ResetProcs |-> NOBODY]
    /\ token_uses = [t \in Tokens |-> 0]

CenterIds == {"c1", "c2"}

NONE == "none"

AssignProcs == 1..NAssignProcs

NoAssignment == [exists |-> FALSE, is_active |-> FALSE, is_primary |-> FALSE]

\* query_user and the two sets are those of a listing of center-scoped records.
NoResolution == [user |-> NOBODY, session_center |-> NONE, audit_center |-> NONE,
                 current_center |-> NONE, query_user |-> NOBODY,
                 for_user_centers |-> {}, get_for_user_centers |-> {}]

NoArgs == [user |-> NOBODY, center |-> NONE, is_primary |-> FALSE]

CenterIdle ==
    /\ assignments = [u \in Users |-> [c \in CenterIds |-> NoAssignment]]
    /\ center_active = [c \in CenterIds |-> TRUE]
    /\ multi_admin = [u \in Users |-> FALSE]
    /\ current_center_id = NONE
    /\ resolved = NoResolution
    /\ apc = [p \in AssignProcs |-> "idle"]
    /\ aargs = [p \in AssignProcs |-> NoArgs]

\* served counts the audited requests answered so far.
NoAuditResult == [op |-> "none", write_ok |-> TRUE, status |-> "none", expected |-> "none",
                  same_state |-> TRUE, served |-> 0]

AuditIdle ==
    /\ audit_trail = <<>>
    /\ audit_result = NoAuditResult

\* GERIATRIC_ADMIN_SETTINGS as the settings modules of the repository define
\* it: without EMERGENCY_ACCESS_ENABLED and EMERGENCY_ACCESS_CODE.
NoEmergency == [enabled |-> FALSE, code |-> "unset", emergency_code |-> "none"]

EmergencyIdle == emergency = NoEmergency

AccountSlots == {"a1", "a2"}

NoAccount == [exists |-> FALSE, username |-> "", employee_id |-> "", is_active |-> FALSE]

CtxThreads == 1..NThreads

\* request and timestamp: NONE and NULL while the attribute is absent.
NoContext == [user |-> NOBODY, center |-> NONE, ip_address |-> NONE, user_agent |-> NONE,
              request |-> NONE, timestamp |-> NULL]

NoEntry == [thread |-> 0, request |-> NoContext, user |-> NOBODY, center |-> NONE,
            ip_address |-> NONE, user_agent |-> NONE]

RestIdle ==
    /\ accounts = [a \in AccountSlots |-> NoAccount]
    /\ ctx_request = [t \in CtxThreads |-> NoContext]
    /\ ctx_locals = [t \in CtxThreads |-> NoContext]
    /\ ctx_entry = NoEntry

InitExt == ResetIdle /\ CenterIdle /\ AuditIdle /\ EmergencyIdle /\ RestIdle

AuthIdle ==
    /\ users = [u \in Users |-> NoRow]
    /\ user_centers = [u \in Users |-> {}]
    /\ session = NoSession
    /\ last = NoOp
    /\ pc = [p \in Procs |-> "idle"]
    /\ loaded = [p \in Procs |-> NoRow]
    /\ lock_transitions = 0

InitRows ==
    [is_active : BOOLEAN, is_superuser : BOOLEAN, is_multi_center_admin : BOOLEAN,
     two_factor_enabled : BOOLEAN, password : {"pw1"},
     must_change_password : BOOLEAN, password_changed_at : {0},
     failed_login_attempts : {0}, last_failed_login : {NULL},
     account_locked_until : {NULL}, last_login : {NULL}]

Init ==
    /\ now = 0
    /\ users \in [Users -> InitRows]
    /\ user_centers \in [Users -> SUBSET Centers]
    /\ session = NoSession
    /\ last = NoOp
    /\ pc = [p \in Procs |-> "idle"]
    /\ loaded = [p \in Procs |-> NoRow]
    /\ lock_transitions = 0
    /\ InitExt

\* Time passes.
Tick ==
    /\ Idle
    /\ now < MaxTime
    /\ now' = now + 1
    /\ UNCHANGED <<users, user_centers, session, last, pc, loaded, lock_transitions>>
    /\ UNCHANGED extVars

\* The result of the operation has been delivered; the next request can start.
Respond ==
    /\ ~Idle
    /\ last' = NoOp
    /\ UNCHANGED <<now, users, user_centers, session, pc, loaded, lock_transitions>>
    /\ UNCHANGED extVars

\* GeriatricAuthenticationBackend().authenticate(request, username, password)
BackendAuthenticate ==
    /\ Idle
    /\ \E username \in Identifiers, password \in Passwords :
        \E r \in {GeriatricAuthenticate(users, username, password, now)} :
        /\ users' = r.db
        /\ last' = Op("backend", username, password, "none", r.user,
                      IF r.user = NOBODY THEN "rejected" ELSE "returned", r.log, FALSE)
    /\ UNCHANGED <<now, user_centers, session, pc, loaded, lock_transitions>>
    /\ UNCHANGED extVars

\* TwoFactorAuthenticationBackend().authenticate(request, username, password, totp_token)
TwoFactorBackendAuthenticate ==
    /\ Idle
    /\ \E username \in Identifiers, password \in Passwords, totp \in TotpInputs :
        \E r \in {TwoFactorAuthenticate(users, username, password, totp, now)} :
        /\ users' = r.db
        /\ last' = Op("two_factor_backend", username, password, totp, r.user,
                      IF r.user = NOBODY THEN "rejected"
                      ELSE IF "_requires_2fa" \in r.marks THEN "second_factor_required"
                      ELSE "returned", r.log, FALSE)
    /\ UNCHANGED <<now, user_centers, session, pc, loaded, lock_transitions>>
    /\ UNCHANGED extVars

\* django.contrib.auth.authenticate(request, username=..., password=...)
ChainLogin ==
    /\ Idle
    /\ \E username \in Identifiers, password \in Passwords :
        \E r \in {ChainAuthenticate(users, username, password, now)} :
        /\ users' = r.db
        /\ last' = Op("chain", username, password, "none", r.user,
                      IF r.user = NOBODY THEN "rejected" ELSE "returned", r.log, FALSE)
    /\ UNCHANGED <<now, user_centers, session, pc, loaded, lock_transitions>>
    /\ UNCHANGED extVars

\* POST /api/v1/auth/login/
LoginFormPost ==
    /\ Idle
    /\ \E username \in Identifiers, password \in Passwords :
        \E r \in {LoginForm(users, session, username, password, now)} :
        /\ users' = r.db
        /\ session' = r.session
        /\ last' = Op("form", username, password, "none", r.user, r.outcome, r.log, r.issued)
    /\ UNCHANGED <<now, user_centers, pc, loaded, lock_transitions>>
    /\ UNCHANGED extVars

\* POST /api/v1/auth/2fa/
TwoFactorPost ==
    /\ Idle
    /\ \E totp \in TotpInputs :
        \E r \in {TwoFactorView(users, session, totp, now)} :
        /\ users' = r.db
        /\ session' = r.session
        /\ last' = Op("two_factor_view", "ghost", "pw1", totp, r.user, r.outcome, r.log,
                      r.issued)
    /\ UNCHANGED <<now, user_centers, pc, loaded, lock_transitions>>
    /\ UNCHANGED extVars

\* POST /api/v1/auth/password-change-required/
PasswordChangeRequiredPost ==
    /\ Idle
    /\ \E old_password \in Passwords, new_password \in Passwords :
        \E r \in {PasswordChangeRequiredView(users, session, old_password, new_password, now)} :
        /\ users' = r.db
        /\ session' = r.session
        /\ last' = Op("password_change_view", "ghost", old_password, "none", r.user,
                      r.outcome, r.log, r.issued)
    /\ UNCHANGED <<now, user_centers, pc, loaded, lock_transitions>>
    /\ UNCHANGED extVars

\* POST /api/v1/auth/logout/
LogoutPost ==
    /\ Idle
    /\ \E r \in {LogoutView(users, session, now)} :
        /\ session' = r.session
        /\ last' = Op("logout", "ghost", "pw1", "none", r.user, r.outcome, r.log, r.issued)
    /\ UNCHANGED <<now, users, user_centers, pc, loaded, lock_transitions>>
    /\ UNCHANGED extVars

(***************************************************************************)
(* Concurrent wrong-password attempts through                              *)
(* GeriatricAuthenticationBackend.authenticate, one per request thread.    *)
(* Each statement that reads or writes the table is a step: the get(),     *)
(* the save() of lock_account and the save() of record_failed_login.       *)
(***************************************************************************)
ConcUser == CHOOSE u \in Users : TRUE

InitConc ==
    /\ now = 0
    /\ users \in [Users -> {r \in InitRows : r.is_active}]
    /\ user_centers \in [Users -> SUBSET Centers]
    /\ session = NoSession
    /\ last = NoOp
    /\ pc = [p \in Procs |-> "start"]
    /\ loaded = [p \in Procs |-> NoRow]
    /\ lock_transitions = 0
    /\ InitExt

\* user = User.objects.get(Q(username=...) | Q(employee_id=...), is_active=True),
\* then is_account_locked() and check_password() on the loaded object, then the
\* assignments of record_failed_login, all in memory.
ConcLoad(p) ==
    /\ pc[p] = "start"
    /\ LET a == users[ConcUser] IN
       IF is_account_locked(a, now)
       THEN /\ pc' = [pc EXCEPT ![p] = "rejected_locked"]
            /\ UNCHANGED loaded
       ELSE /\ loaded' = [loaded EXCEPT ![p] = record_failed_login(a, now)]
            /\ pc' = [pc EXCEPT ![p] =
                        IF a.failed_login_attempts + 1 >= MAX_LOGIN_ATTEMPTS
                        THEN "lock_account" ELSE "save"]
    /\ UNCHANGED <<now, users, user_centers, session, last, lock_transitions>>
    /\ UNCHANGED extVars

\* lock_account: self.save(update_fields=['account_locked_until'])
ConcLockAccount(p) ==
    /\ pc[p] = "lock_account"
    /\ users' = Save(users, ConcUser, loaded[p], {"account_locked_until"})
    /\ lock_transitions' = lock_transitions +
            (IF is_account_locked(users[ConcUser], now) THEN 0 ELSE 1)
    /\ pc' = [pc EXCEPT ![p] = "save"]
    /\ UNCHANGED <<now, user_centers, session, last, loaded>>
    /\ UNCHANGED extVars

\* record_failed_login: self.save(update_fields=[...the three lockout fields...])
ConcSave(p) ==
    /\ pc[p] = "save"
    /\ users' = Save(users, ConcUser, loaded[p], FailedLoginFields)
    /\ lock_transitions' = lock_transitions +
            (IF ~is_account_locked(users[ConcUser], now)
                /\ is_account_locked(loaded[p], now) THEN 1 ELSE 0)
    /\ pc' = [pc EXCEPT ![p] = "done"]
    /\ UNCHANGED <<now, user_centers, session, last, loaded>>
    /\ UNCHANGED extVars

\* The attempt ends before its next save(): the worker is killed, the database
\* connection drops or the save raises.  No transaction is open (the settings
\* leave ATOMIC_REQUESTS unset and no code uses transaction.atomic), so what
\* was saved stays saved.
ConcAbandon(p) ==
    /\ pc[p] \in {"lock_account", "save"}
    /\ pc' = [pc EXCEPT ![p] = "abandoned"]
    /\ UNCHANGED <<now, users, user_centers, session, last, loaded, lock_transitions>>
    /\ UNCHANGED extVars

NextConc ==
    \E p \in Procs :
        \/ ConcLoad(p)
        \/ ConcLockAccount(p)
        \/ ConcSave(p)
        \/ ConcAbandon(p)

SpecConc == InitConc /\ [][NextConc]_vars

Next ==
    \/ Tick
    \/ Respond
    \/ BackendAuthenticate
    \/ TwoFactorBackendAuthenticate
    \/ ChainLogin
    \/ LoginFormPost
    \/ TwoFactorPost
    \/ PasswordChangeRequiredPost
    \/ LogoutPost

Spec == Init /\ [][Next]_vars

(***************************************************************************)
(* Vocabulary of the properties.  They read the record of the operation    *)
(* that has just run (last) against the table it left (users); now is the  *)
(* instant the operation ran at, since time passes only between            *)
(* operations.                                                             *)
(***************************************************************************)
LoginOps == {"backend", "two_factor_backend", "chain", "form"}

\* A login attempt was made (a client that is already signed in is redirected
\* by the login view before any credential is looked at).
LoginAttempt == last.op \in LoginOps /\ last.outcome # "already_authenticated"

OnAccount == LoginAttempt /\ last.target # NOBODY

CorrectPassword == OnAccount /\ last.password = last.before.password

WrongPassword == OnAccount /\ last.password # last.before.password

LockedBefore == OnAccount /\ is_account_locked(last.before, now)

After == users[last.target]

LoginEntries(log, withSignals) ==
    Cardinality({i \in DOMAIN log : log[i].action = "LOGIN"
                                    /\ (withSignals \/ log[i].by # "signal")})

Reasons(log) == {log[i].reason : i \in DOMAIN log}

(***************************************************************************)
(* C1: an account that wrong-password attempts brought to the threshold    *)
(* is locked, and while it is locked a login attempt with the correct      *)
(* password is rejected: no user is returned and no session is issued,     *)
(* whichever entry point the attempt takes (a backend, the configured      *)
(* chain, the login form).                                                 *)
(***************************************************************************)
C1_LockedAccountRejected ==
    /\ (WrongPassword /\ last.before.is_active /\ ~LockedBefore
            /\ last.before.failed_login_attempts + 1 >= MAX_LOGIN_ATTEMPTS)
        => is_account_locked(After, now)
    /\ (CorrectPassword /\ LockedBefore)
        => (last.user = NOBODY /\ ~last.session_issued)

(***************************************************************************)
(* C2: after a login attempt that ends in a successful authentication the  *)
(* account has failed_login_attempts = 0 and account_locked_until null,    *)
(* whatever failures and locks preceded it.  Stated for the attempts the   *)
(* GeriatricAuthenticationBackend accepts, which run                       *)
(* record_successful_login.                                                *)
(***************************************************************************)
C2_SuccessClearsCounterAndLock ==
    (LoginAttempt /\ last.op = "backend" /\ last.user # NOBODY)
        => /\ users[last.user].failed_login_attempts = 0
           /\ users[last.user].account_locked_until = NULL

(***************************************************************************)
(* C3: the expiry of a lock leaves failed_login_attempts where it was, so  *)
(* that for an active account whose lock has expired with the counter      *)
(* still at the threshold or above, one more wrong-password attempt locks  *)
(* the account again at once.                                              *)
(***************************************************************************)
C3_ExpiredLockRelocksAtOnce ==
    (WrongPassword /\ last.before.is_active /\ ~LockedBefore
        /\ last.before.account_locked_until # NULL
        /\ last.before.failed_login_attempts >= MAX_LOGIN_ATTEMPTS)
        => /\ is_account_locked(After, now)
           /\ After.failed_login_attempts > last.before.failed_login_attempts

C3_Witness ==
    /\ WrongPassword /\ last.before.is_active /\ ~LockedBefore
    /\ last.before.account_locked_until # NULL
    /\ last.before.failed_login_attempts >= MAX_LOGIN_ATTEMPTS
    /\ is_account_locked(After, now)

(***************************************************************************)
(* C4: when N > MAX_LOGIN_ATTEMPTS wrong-password attempts on one account  *)
(* run concurrently and each of them reads the account and writes it, the  *)
(* stored failed_login_attempts ends at N and the account went from        *)
(* unlocked to locked exactly once.                                        *)
(***************************************************************************)
C4_NoLostUpdate ==
    (\A p \in Procs : pc[p] = "done")
        => /\ users[ConcUser].failed_login_attempts = NProcs
           /\ lock_transitions = 1

(***************************************************************************)
(* C5: a login attempt on an account with is_active = false is rejected,   *)
(* with the right password as with a wrong one, and leaves the account's   *)
(* failed_login_attempts, last_failed_login and account_locked_until as    *)
(* they were.                                                              *)
(***************************************************************************)
C5_InactiveRejectedUntouched ==
    (OnAccount /\ ~last.before.is_active)
        => /\ last.user = NOBODY
           /\ ~last.session_issued
           /\ After.failed_login_attempts = last.before.failed_login_attempts
           /\ After.last_failed_login = last.before.last_failed_login
           /\ After.account_locked_until = last.before.account_locked_until

C5_Witness ==
    /\ CorrectPassword /\ ~last.before.is_active
    /\ last.op = "form" /\ last.outcome = "account_deactivated"

(***************************************************************************)
(* C6: a login attempt with the correct password on an account that is     *)
(* neither superuser nor multi-center admin and has no active center is    *)
(* rejected (no user, no session) and changes none of                      *)
(* failed_login_attempts, last_failed_login and last_login.                *)
(***************************************************************************)
C6_NoCenterRejectedUntouched ==
    (CorrectPassword /\ ~last.before.is_superuser /\ ~last.before.is_multi_center_admin
        /\ ~HasActiveCenter(last.target))
        => /\ last.user = NOBODY
           /\ ~last.session_issued
           /\ After.failed_login_attempts = last.before.failed_login_attempts
           /\ After.last_failed_login = last.before.last_failed_login
           /\ After.last_login = last.before.last_login

(***************************************************************************)
(* C7: every login attempt writes exactly one AuditTrail row with action   *)
(* LOGIN (counted with the receivers of signals.py connected, or without   *)
(* them).                                                                  *)
(***************************************************************************)
C7_ExactlyOneLoginEntry ==
    LoginAttempt
        => \/ LoginEntries(last.log, FALSE) = 1
           \/ LoginEntries(last.log, TRUE) = 1

(***************************************************************************)
(* C8: an account with two_factor_enabled holds an authenticated session   *)
(* only after a correct TOTP code was verified for it.                     *)
(***************************************************************************)
C8_NoSessionBeforeSecondFactor ==
    (session.user # NOBODY /\ users[session.user].two_factor_enabled)
        => session.tfa_verified

(***************************************************************************)
(* C9: only an accepted attempt applies the success bookkeeping: an        *)
(* attempt with the correct password that ends in no-center-assignment,    *)
(* password-change-required, second-factor-required or bad-second-factor   *)
(* leaves failed_login_attempts as it was.  Stated for the two backends of *)
(* apps/core/backends.py called on their own.                              *)
(***************************************************************************)
NotAcceptedReasons ==
    {"no_center_assignment", "password_change_required", "2fa_token_required",
     "invalid_2fa_token"}

C9_BookkeepingOnlyWhenAccepted ==
    (CorrectPassword /\ last.op \in {"backend", "two_factor_backend"}
        /\ Reasons(last.log) \cap NotAcceptedReasons # {})
        => After.failed_login_attempts = last.before.failed_login_attempts

(***************************************************************************)
(* C10: for an active, unlocked account whose password must be changed     *)
(* (must_change_password set, or the password older than the expiry        *)
(* period), a sign-in through the login form with the correct password     *)
(* issues no session and ends in the outcome password_change_required,     *)
(* which no wrong-password attempt ends in, without counting a failure;    *)
(* and no session is ever issued to an account whose password must be      *)
(* changed.                                                                *)
(***************************************************************************)
MustChange(a) ==
    a.must_change_password
        \/ (a.password_changed_at # NULL /\ now > a.password_changed_at + ExpiryTicks)

sha256(token) == 1000 + token

generate_password_reset_token(row, token, t) ==
    [row EXCEPT !.password_reset_token = sha256(token),
                !.password_reset_token_expires = t + TokenTicks]

\* Mutant: the expiry is not looked at.
verify_password_reset_token_no_expiry(row, token, t) ==
    IF row.password_reset_token = NULL \/ row.password_reset_token_expires = NULL
    THEN FALSE
    ELSE sha256(token) = row.password_reset_token

verify_password_reset_token(row, token, t) ==
    IF row.password_reset_token = NULL \/ row.password_reset_token_expires = NULL
    THEN FALSE
    ELSE IF t > row.password_reset_token_expires THEN FALSE
    ELSE sha256(token) = row.password_reset_token

clear_password_reset_token(row) ==
    [row EXCEPT !.password_reset_token = NULL, !.password_reset_token_expires = NULL]

ResetTokenFields == {"password_reset_token", "password_reset_token_expires"}

\* PasswordResetConfirmView.get_user: the first active user whose row verifies the token.
ResetGetUser(rows, token, t) ==
    LET m == {u \in Users : rows[u].is_active /\ verify_password_reset_token(rows[u], token, t)}
    IN  IF m = {} THEN NOBODY ELSE CHOOSE u \in m : TRUE

InitReset ==
    /\ now = 0
    /\ AuthIdle
    /\ reset_rows \in [Users -> {NoResetRow, [NoResetRow EXCEPT !.is_active = FALSE]}]
    /\ tokens_issued = 0
    /\ rpc = [p \in ResetProcs |-> "start"]
    /\ rtoken = [p \in ResetProcs |-> NULL]
    /\ rform = [p \in ResetProcs |-> NOBODY]
    /\ token_uses = [t \in Tokens |-> 0]
    /\ CenterIdle
    /\ AuditIdle
    /\ EmergencyIdle
    /\ RestIdle

\* PasswordResetRequestView.form_valid for the e-mail address of an active account.
PasswordResetRequest ==
    /\ tokens_issued < MaxTokens
    /\ \E u \in Users :
        /\ reset_rows[u].is_active
        /\ reset_rows' = [reset_rows EXCEPT ![u] =
                generate_password_reset_token(@, tokens_issued + 1, now)]
    /\ tokens_issued' = tokens_issued + 1
    /\ UNCHANGED <<now, otherThanReset, rpc, rtoken, rform, token_uses>>

\* POST password-reset/confirm/<token>/: get_form_kwargs calls get_user() and
\* hands the object to the form; the form validates the two new passwords.
ResetConfirmGetForm(p) ==
    /\ rpc[p] = "start"
    /\ \E token \in 1..tokens_issued :
        /\ rtoken' = [rtoken EXCEPT ![p] = token]
        /\ rform' = [rform EXCEPT ![p] = ResetGetUser(reset_rows, token, now)]
    /\ rpc' = [rpc EXCEPT ![p] = "form_valid"]
    /\ UNCHANGED <<now, otherThanReset, reset_rows, tokens_issued, token_uses>>

\* form_valid: get_user() again; without a user the request ends in the redirect
\* "Invalid or expired password reset link".
ResetConfirmFormValid(p) ==
    /\ rpc[p] = "form_valid"
    /\ rpc' = [rpc EXCEPT ![p] =
                IF ResetGetUser(reset_rows, rtoken[p], now) = NOBODY \/ rform[p] = NOBODY
                THEN "invalid_link" ELSE "save"]
    /\ UNCHANGED <<now, otherThanReset, reset_rows, tokens_issued, rtoken, rform, token_uses>>

\* form.save(): set_password on form.user and save(update_fields=['password', ...]).
ResetConfirmSave(p) ==
    /\ rpc[p] = "save"
    /\ \E new_password \in Passwords :
        reset_rows' = [reset_rows EXCEPT ![rform[p]].password = new_password]
    /\ token_uses' = [token_uses EXCEPT ![rtoken[p]] = @ + 1]
    /\ rpc' = [rpc EXCEPT ![p] = "clear"]
    /\ UNCHANGED <<now, otherThanReset, tokens_issued, rtoken, rform>>

\* user.clear_password_reset_token(), then the PASSWORD_RESET audit row and the
\* redirect to password-reset/complete/.
ResetConfirmClear(p) ==
    /\ rpc[p] = "clear"
    /\ reset_rows' = [reset_rows EXCEPT ![rform[p]] =
            SaveFields(@, clear_password_reset_token(@), ResetTokenFields)]
    /\ rpc' = [rpc EXCEPT ![p] = "done"]
    /\ UNCHANGED <<now, otherThanReset, tokens_issued, rtoken, rform, token_uses>>

\* The next request handled by the same worker.
ResetNextRequest(p) ==
    /\ rpc[p] \in {"done", "invalid_link"}
    /\ rpc' = [rpc EXCEPT ![p] = "start"]
    /\ rtoken' = [rtoken EXCEPT ![p] = NULL]
    /\ rform' = [rform EXCEPT ![p] = NOBODY]
    /\ UNCHANGED <<now, otherThanReset, reset_rows, tokens_issued, token_uses>>

NextReset ==
    \/ Tick
    \/ PasswordResetRequest
    \/ \E p \in ResetProcs :
        \/ ResetConfirmGetForm(p)
        \/ ResetConfirmFormValid(p)
        \/ ResetConfirmSave(p)
        \/ ResetConfirmClear(p)
        \/ ResetNextRequest(p)

SpecReset == InitReset /\ [][NextReset]_vars

(***************************************************************************)
(* C11: a password-reset token is single use: at most one password change  *)
(* is ever completed with one token, also when confirmations presenting    *)
(* the same token are processed concurrently.                              *)
(***************************************************************************)
C11_TokenSingleUse == \A t \in Tokens : token_uses[t] <= 1

(***************************************************************************)
(* Centers and assignments.  GeriatricCenter.objects and                   *)
(* UserCenterAssignment.objects are ActiveModelManagers: their querysets   *)
(* hold the rows with is_active = True.  user.centers is the many-to-many  *)
(* manager built on GeriatricCenter's manager: it filters the centers on   *)
(* is_active and joins the assignment table without a filter on the        *)
(* assignment rows.  A forward foreign key (assignment.center) is followed *)
(* without a filter.                                                       *)
(***************************************************************************)
ActiveAssignment(asg, u, c) == asg[u][c].exists /\ asg[u][c].is_active

\* user.centers.filter(id=c)
UserCentersQuery(asg, u) == {c \in CenterIds : center_active[c] /\ asg[u][c].exists}

has_center_access(asg, u, c) ==
    IF multi_admin[u] THEN TRUE
    ELSE c \in UserCentersQuery(asg, u)

\* user.usercenterassignment_set.filter(is_primary=True, is_active=True)
ActivePrimaries(asg, u) ==
    {c \in CenterIds : ActiveAssignment(asg, u, c) /\ asg[u][c].is_primary}

\* .first() of that queryset: the row created last.  The model keeps no
\* creation times; with several rows any of them can be the first.
FirstPrimary(asg, u) == IF ActivePrimaries(asg, u) = {} THEN {NONE} ELSE ActivePrimaries(asg, u)

soft_delete(row) == [row EXCEPT !.is_active = FALSE]

restore(row) == [row EXCEPT !.is_active = TRUE]

\* No request is being answered.
CenterIdleNow == resolved = NoResolution

InitCenters ==
    /\ now = 0
    /\ AuthIdle
    /\ ResetIdle
    /\ assignments = [u \in Users |-> [c \in CenterIds |-> NoAssignment]]
    /\ center_active = [c \in CenterIds |-> TRUE]
    /\ multi_admin \in [Users -> BOOLEAN]
    /\ current_center_id = NONE
    /\ resolved = NoResolution
    /\ apc = [p \in AssignProcs |-> "idle"]
    /\ aargs = [p \in AssignProcs |-> NoArgs]
    /\ AuditIdle
    /\ EmergencyIdle
    /\ RestIdle

\* assignment.soft_delete()
AssignmentSoftDelete ==
    /\ CenterIdleNow
    /\ \E u \in Users, c \in CenterIds :
        /\ ActiveAssignment(assignments, u, c)
        /\ assignments' = [assignments EXCEPT ![u][c] = soft_delete(@)]
    /\ UNCHANGED <<now, otherThanCenters, center_active, multi_admin, current_center_id,
                   resolved, apc, aargs>>

\* assignment.restore()
AssignmentRestore ==
    /\ CenterIdleNow
    /\ \E u \in Users, c \in CenterIds :
        /\ assignments[u][c].exists /\ ~assignments[u][c].is_active
        /\ assignments' = [assignments EXCEPT ![u][c] = restore(@)]
    /\ UNCHANGED <<now, otherThanCenters, center_active, multi_admin, current_center_id,
                   resolved, apc, aargs>>

\* center.soft_delete() and center.restore()
CenterSoftDeleteOrRestore ==
    /\ CenterIdleNow
    /\ \E c \in CenterIds : center_active' = [center_active EXCEPT ![c] = ~@]
    /\ UNCHANGED <<now, otherThanCenters, assignments, multi_admin, current_center_id,
                   resolved, apc, aargs>>

\* UserCenterAssignmentManager.assign_user_to_center(user, center, is_primary):
\* the update() that unsets the user's active primary rows.
AssignUnsetPrimaries(p) ==
    /\ CenterIdleNow
    /\ apc[p] = "idle"
    /\ \E u \in Users, c \in CenterIds, is_primary \in BOOLEAN :
        /\ aargs' = [aargs EXCEPT ![p] = [user |-> u, center |-> c, is_primary |-> is_primary]]
        /\ assignments' =
            IF is_primary
            THEN [assignments EXCEPT ![u] =
                    [d \in CenterIds |->
                        IF ActiveAssignment(assignments, u, d)
                        THEN [assignments[u][d] EXCEPT !.is_primary = FALSE]
                        ELSE assignments[u][d]]]
            ELSE assignments
    /\ apc' = [apc EXCEPT ![p] = "get_or_create"]
    /\ UNCHANGED <<now, otherThanCenters, center_active, multi_admin, current_center_id,
                   resolved>>

\* get_or_create(user, center, defaults={is_primary, assigned_by}) on the manager
\* of active rows.  A soft-deleted row of the pair is not found, and the INSERT
\* then breaks unique_together: the call raises.
AssignGetOrCreate(p) ==
    /\ CenterIdleNow
    /\ apc[p] = "get_or_create"
    /\ LET u == aargs[p].user
           c == aargs[p].center
       IN  IF ActiveAssignment(assignments, u, c)
           THEN /\ apc' = [apc EXCEPT ![p] = IF aargs[p].is_primary THEN "save_primary" ELSE "idle"]
                /\ UNCHANGED assignments
           ELSE IF assignments[u][c].exists
           THEN /\ apc' = [apc EXCEPT ![p] = "idle"]
                /\ UNCHANGED assignments
           ELSE /\ apc' = [apc EXCEPT ![p] = "idle"]
                /\ assignments' = [assignments EXCEPT ![u][c] =
                        [exists |-> TRUE, is_active |-> TRUE,
                         is_primary |-> aargs[p].is_primary]]
    /\ UNCHANGED <<now, otherThanCenters, center_active, multi_admin, current_center_id,
                   resolved, aargs>>

\* if not created and is_primary: assignment.save(update_fields=['is_primary'])
AssignSavePrimary(p) ==
    /\ CenterIdleNow
    /\ apc[p] = "save_primary"
    /\ assignments' = [assignments EXCEPT ![aargs[p].user][aargs[p].center].is_primary = TRUE]
    /\ apc' = [apc EXCEPT ![p] = "idle"]
    /\ UNCHANGED <<now, otherThanCenters, center_active, multi_admin, current_center_id,
                   resolved, aargs>>

\* UserCenterAssignmentForm: clean() and save(), for a new row (instance.pk
\* unset) or for the row of the pair being edited.  The form offers the active
\* centers.  A rejected form changes nothing.
AssignmentFormSave ==
    /\ CenterIdleNow
    /\ \E u \in Users, c \in CenterIds, is_primary \in BOOLEAN :
        /\ center_active[c]
        /\ ~(assignments[u][c].exists /\ ~assignments[u][c].is_active)
        /\ is_primary => ActivePrimaries(assignments, u) \ {c} = {}
        /\ assignments' = [assignments EXCEPT ![u][c] =
                [exists |-> TRUE, is_active |-> TRUE, is_primary |-> is_primary]]
    /\ UNCHANGED <<now, otherThanCenters, center_active, multi_admin, current_center_id,
                   resolved, apc, aargs>>

\* AuditMiddleware.process_request: the center put in the thread-local storage.
AuditMiddlewareCenter(asg, u, sid) ==
    IF sid # NONE /\ center_active[sid] THEN {sid} ELSE FirstPrimary(asg, u)

\* MultiCenterMiddleware.process_request: request.current_center and the
\* session it leaves, for each row .first() can return.
MultiCenterMiddleware(asg, u, sid) ==
    LET kept == IF sid # NONE /\ center_active[sid] /\ has_center_access(asg, u, sid)
                THEN sid ELSE NONE
    IN  IF kept = NONE /\ ~multi_admin[u]
        THEN {[current_center |-> c, session_center |-> c] : c \in FirstPrimary(asg, u)}
        ELSE {[current_center |-> kept, session_center |-> kept]}

\* A request of the signed-in user passes AuditMiddleware, then
\* MultiCenterMiddleware, which overwrites the thread-local center.
CenterRequest ==
    /\ CenterIdleNow
    /\ \E u \in Users :
        \E a \in AuditMiddlewareCenter(assignments, u, current_center_id),
           r \in MultiCenterMiddleware(assignments, u, current_center_id) :
        /\ current_center_id' = r.session_center
        /\ resolved' = [NoResolution EXCEPT !.user = u,
                                            !.session_center = current_center_id,
                                            !.audit_center = a,
                                            !.current_center = r.current_center]
    /\ UNCHANGED <<now, otherThanCenters, assignments, center_active, multi_admin, apc, aargs>>

\* The rows of a model with MultiCenterMixin whose manager is a
\* CenterAwareManager: one active and one soft-deleted record in each center.
CenterRecords == [center : CenterIds, is_active : BOOLEAN]

\* ActiveModelManager.get_queryset
ActiveRecords == {r \in CenterRecords : r.is_active}

\* CenterAwareManager.for_user_centers
for_user_centers(asg, u) ==
    IF multi_admin[u] THEN ActiveRecords
    ELSE {r \in ActiveRecords : r.center \in UserCentersQuery(asg, u)}

\* MultiCenterMixin.get_for_user_centers: cls.objects is that manager.
get_for_user_centers(asg, u) ==
    {r \in ActiveRecords : r.center \in UserCentersQuery(asg, u) /\ r.is_active}

\* A view lists the center-scoped records for a user, through each of the two
\* operations.
CenterRecordsQuery ==
    /\ CenterIdleNow
    /\ \E u \in Users :
        resolved' = [NoResolution EXCEPT
                        !.query_user = u,
                        !.for_user_centers = for_user_centers(assignments, u),
                        !.get_for_user_centers = get_for_user_centers(assignments, u)]
    /\ UNCHANGED <<now, otherThanCenters, assignments, center_active, multi_admin,
                   current_center_id, apc, aargs>>

\* The response of that request has been sent.
CenterRespond ==
    /\ ~CenterIdleNow
    /\ resolved' = NoResolution
    /\ UNCHANGED <<now, otherThanCenters, assignments, center_active, multi_admin,
                   current_center_id, apc, aargs>>

\* POST of center_switch_view with center_id = c; a refused switch changes nothing.
CenterSwitch ==
    /\ CenterIdleNow
    /\ \E u \in Users, c \in CenterIds :
        /\ center_active[c]
        /\ has_center_access(assignments, u, c)
        /\ current_center_id' = c
    /\ UNCHANGED <<now, otherThanCenters, assignments, center_active, multi_admin, resolved,
                   apc, aargs>>

\* Logout (_cleanup_session) followed by a login (_setup_secure_session): the
\* session starts with the center of the active primary assignment, if any.
CenterSessionStart ==
    /\ CenterIdleNow
    /\ \E u \in Users : current_center_id' \in FirstPrimary(assignments, u)
    /\ UNCHANGED <<now, otherThanCenters, assignments, center_active, multi_admin, resolved,
                   apc, aargs>>

NextCenters ==
    \/ AssignmentSoftDelete
    \/ AssignmentRestore
    \/ CenterSoftDeleteOrRestore
    \/ AssignmentFormSave
    \/ CenterRequest
    \/ CenterRecordsQuery
    \/ CenterRespond
    \/ CenterSwitch
    \/ CenterSessionStart
    \/ \E p \in AssignProcs :
        \/ AssignUnsetPrimaries(p)
        \/ AssignGetOrCreate(p)
        \/ AssignSavePrimary(p)

SpecCenters == InitCenters /\ [][NextCenters]_vars

(***************************************************************************)
(* C12: has_center_access(user, center) is true only if the user is a      *)
(* multi-center admin or an active UserCenterAssignment links the user and *)
(* the center: a soft-deleted assignment grants no access.                 *)
(***************************************************************************)
C12_AccessOnlyByActiveAssignment ==
    \A u \in Users, c \in CenterIds :
        has_center_access(assignments, u, c)
            => (multi_admin[u] \/ ActiveAssignment(assignments, u, c))

(***************************************************************************)
(* C13: the current center of an authenticated request is the center       *)
(* recorded in the session if that center is active and the user still has *)
(* access to it (is a multi-center admin or holds an active assignment to  *)
(* it); otherwise the center of an active primary assignment of the user;  *)
(* otherwise none.  A multi-center admin without a valid session center    *)
(* gets none.                                                              *)
(***************************************************************************)
ClaimedCenters(u, sid) ==
    IF sid # NONE /\ center_active[sid]
        /\ (multi_admin[u] \/ ActiveAssignment(assignments, u, sid))
    THEN {sid}
    ELSE IF ~multi_admin[u] /\ ActivePrimaries(assignments, u) # {}
    THEN ActivePrimaries(assignments, u)
    ELSE {NONE}

C13_CenterResolutionOrder ==
    resolved.user # NOBODY
        => resolved.current_center \in ClaimedCenters(resolved.user, resolved.session_center)

(***************************************************************************)
(* C19: every user has at most one active UserCenterAssignment with        *)
(* is_primary = true, after any sequence of assign_user_to_center calls    *)
(* (also concurrent ones), assignment-form saves, soft_delete and restore. *)
(***************************************************************************)
C19_AtMostOneActivePrimary ==
    \A u \in Users : Cardinality(ActivePrimaries(assignments, u)) <= 1


(***************************************************************************)
(* The audit trail.  The requests that write AuditTrail rows are served    *)
(* one at a time; each is given writes_ok, whether the INSERTs into        *)
(* core_audit_trail of that request succeed or raise.  The deployment is   *)
(* the one of the repository: no module imports apps.core.signals, so the  *)
(* rows of the signal handlers are not written.                            *)
(***************************************************************************)

\* AuditTrail.objects.create for each entry: timestamp is auto_now_add.
AuditTrailCreate(trail, entries, t) ==
    trail \o [i \in 1..Len(entries) |->
                [action |-> entries[i].action, reason |-> entries[i].reason,
                 by |-> entries[i].by, timestamp |-> t]]

IsUnsignalled(e) == e.by # "signal"

Unsignalled(log) == SelectSeq(log, IsUnsignalled)

\* try: AuditTrail.objects.create(...) except Exception: logger.error(...)
Swallowed(entries, writes_ok) == IF writes_ok THEN entries ELSE <<>>

\* What a request leaves: the accounts, the session and its current center,
\* the password-reset rows, the audit rows it wrote and what the caller sees.
AuditOutcome(db, s, center, rrows, rows, status) ==
    [db |-> db, session |-> s, center |-> center, reset_rows |-> rrows, rows |-> rows,
     status |-> status]

\* _setup_secure_session: the primary center, if the session has none.
SessionCenter(asg, center, u, issued) ==
    IF issued /\ center = NONE THEN FirstPrimary(asg, u) ELSE {center}

\* SecureLoginView: r is what CustomAuthenticationForm and form_valid or
\* form_invalid hand back.
AuditedLogin(r, center, rrows, writes_ok) ==
    {AuditOutcome(r.db, r.session, c, rrows,
                  Swallowed(Unsignalled(r.log), writes_ok), r.outcome)
        : c \in SessionCenter(assignments, center, r.user, r.issued)}

\* SecureLogoutView.post; _cleanup_session drops current_center_id.
AuditedLogout(r, rrows, writes_ok) ==
    {AuditOutcome(r.db, r.session, NONE, rrows,
                  Swallowed(Unsignalled(r.log), writes_ok), r.outcome)}

\* PasswordChangeRequiredView.form_valid with _log_password_change.
AuditedPasswordChange(r, center, rrows, writes_ok) ==
    {AuditOutcome(r.db, r.session, center, rrows,
                  Swallowed(Unsignalled(r.log), writes_ok), r.outcome)}

\* center_switch_view (POST): the session key is set, then AuditTrail.objects.create
\* runs outside any try; when it raises the response is a 500 and
\* SessionMiddleware does not save the session.
center_switch_view(db, s, center, rrows, c, t, writes_ok) ==
    LET user == RequestUser(s, db, t) IN
    IF user = NOBODY THEN
        {AuditOutcome(db, s, center, rrows, <<>>, "login_required")}
    ELSE IF ~(center_active[c] /\ has_center_access(assignments, user, c)) THEN
        {AuditOutcome(db, s, center, rrows,
                      Swallowed(_log_data_modification(user, 302), writes_ok),
                      "switch_refused")}
    ELSE IF ~writes_ok THEN
        {AuditOutcome(db, s, center, rrows, <<>>, "server_error")}
    ELSE
        {AuditOutcome(db, s, c, rrows,
                      <<Entry("UPDATE", "center_switched", "view")>>
                          \o _log_data_modification(user, 302),
                      "switched")}

\* SecurityMiddleware._check_suspicious_activity: the VIEW row of an
\* authenticated user is created outside any try.
_check_suspicious_activity(user, suspicious, writes_ok) ==
    IF suspicious /\ user # NOBODY
    THEN IF writes_ok THEN [raised |-> FALSE,
                            rows |-> <<Entry("VIEW", "suspicious_activity", "middleware")>>]
         ELSE [raised |-> TRUE, rows |-> <<>>]
    ELSE [raised |-> FALSE, rows |-> <<>>]

\* Any other request: SecurityMiddleware.process_request, the view, then
\* AuditMiddleware.process_response, which logs POST, PUT, PATCH and DELETE.
ProcessRequest(db, s, center, rrows, method, suspicious, t, writes_ok) ==
    LET user == RequestUser(s, db, t)
        chk == _check_suspicious_activity(user, suspicious, writes_ok)
    IN  IF chk.raised THEN
            {AuditOutcome(db, s, center, rrows, <<>>, "server_error")}
        ELSE
            {AuditOutcome(db, s, center, rrows,
                          chk.rows \o (IF method = "POST"
                                       THEN Swallowed(_log_data_modification(user, 200),
                                                      writes_ok)
                                       ELSE <<>>),
                          "page")}

\* PasswordResetRequestView.form_valid with _log_password_reset_request.
AuditedResetRequest(db, s, center, rrows, u, token, t, writes_ok) ==
    LET user == RequestUser(s, db, t) IN
    IF ~rrows[u].is_active THEN
        {AuditOutcome(db, s, center, rrows,
                      Swallowed(_log_data_modification(user, 302), writes_ok),
                      "reset_requested")}
    ELSE
        {AuditOutcome(db, s, center,
                      [rrows EXCEPT ![u] = generate_password_reset_token(@, token, t)],
                      Swallowed(<<Entry("PASSWORD_RESET_REQUEST", "password_reset_requested",
                                        "view")>>
                                    \o _log_data_modification(user, 302), writes_ok),
                      "reset_requested")}

\* PasswordResetConfirmView.form_valid served alone, with _log_password_reset.
AuditedResetConfirm(db, s, center, rrows, token, new_password, t, writes_ok) ==
    LET user == RequestUser(s, db, t)
        u == ResetGetUser(rrows, token, t)
    IN  IF u = NOBODY THEN
            {AuditOutcome(db, s, center, rrows,
                          Swallowed(_log_data_modification(user, 302), writes_ok),
                          "invalid_link")}
        ELSE
            {AuditOutcome(db, s, center,
                          [rrows EXCEPT ![u] =
                              clear_password_reset_token([@ EXCEPT !.password = new_password])],
                          Swallowed(<<Entry("PASSWORD_RESET", "password_reset", "view")>>
                                        \o _log_data_modification(user, 302), writes_ok),
                          "reset_done")}

\* AuditTrailAdmin
has_add_permission == FALSE

has_change_permission == FALSE

\* An admin that lets its users delete the rows.
has_delete_permission_granted == TRUE

has_delete_permission == FALSE

RemoveAt(trail, i) == [j \in 1..(Len(trail) - 1) |-> IF j < i THEN trail[j] ELSE trail[j + 1]]

\* The add, change and delete views of the admin site for AuditTrail: each asks
\* the ModelAdmin for the permission and answers 403 without it.
AuditTrailAdminView(trail, kind, i, t) ==
    IF kind = "admin_add" THEN
        IF has_add_permission
        THEN [trail |-> AuditTrailCreate(trail, <<Entry("VIEW", "manual", "admin")>>, t),
              status |-> "saved"]
        ELSE [trail |-> trail, status |-> "forbidden"]
    ELSE IF kind = "admin_change" THEN
        IF has_change_permission
        THEN [trail |-> [trail EXCEPT ![i].reason = "edited"], status |-> "saved"]
        ELSE [trail |-> trail, status |-> "forbidden"]
    ELSE
        IF has_delete_permission
        THEN [trail |-> RemoveAt(trail, i), status |-> "deleted"]
        ELSE [trail |-> trail, status |-> "forbidden"]

AuditIdleNow == audit_result.op = "none" /\ audit_result.served < MaxRequests

\* The state before the first audited request: one account with its center
\* assignments, nobody signed in, an empty trail.
InitAudit ==
    /\ now = 0
    /\ users \in [Users -> {r \in InitRows : /\ r.is_active
                                             /\ ~r.is_superuser
                                             /\ ~r.is_multi_center_admin
                                             /\ ~r.two_factor_enabled}]
    /\ user_centers = [u \in Users |-> Centers]
    /\ session = NoSession
    /\ last = NoOp
    /\ pc = [p \in Procs |-> "idle"]
    /\ loaded = [p \in Procs |-> NoRow]
    /\ lock_transitions = 0
    /\ ResetIdle
    /\ assignments = [u \in Users |-> [c \in CenterIds |->
            [exists |-> TRUE, is_active |-> TRUE, is_primary |-> c \in user_centers[u]]]]
    /\ center_active = [c \in CenterIds |-> TRUE]
    /\ multi_admin = [u \in Users |-> users[u].is_multi_center_admin]
    /\ current_center_id = NONE
    /\ resolved = NoResolution
    /\ apc = [p \in AssignProcs |-> "idle"]
    /\ aargs = [p \in AssignProcs |-> NoArgs]
    /\ AuditIdle
    /\ EmergencyIdle
    /\ RestIdle

\* The request is served: r is what it leaves with the given fate of its audit
\* writes, e what it leaves when they succeed.
Serve(op, r, e, writes_ok) ==
    /\ Len(audit_trail) + Len(r.rows) <= MaxAudit
    /\ users' = r.db
    /\ session' = r.session
    /\ current_center_id' = r.center
    /\ reset_rows' = r.reset_rows
    /\ audit_trail' = AuditTrailCreate(audit_trail, r.rows, now)
    /\ audit_result' = [op |-> op, write_ok |-> writes_ok, status |-> r.status,
                        expected |-> e.status,
                        same_state |-> /\ r.db = e.db
                                       /\ r.session = e.session
                                       /\ r.center = e.center
                                       /\ r.reset_rows = e.reset_rows,
                        served |-> audit_result.served + 1]
    /\ UNCHANGED <<now, auditFrame>>

AuditLoginPost ==
    /\ AuditIdleNow
    /\ \E username \in Identifiers, password \in Passwords, writes_ok \in BOOLEAN :
        \E v \in {LoginForm(users, session, username, password, now)} :
        \E r \in AuditedLogin(v, current_center_id, reset_rows, writes_ok) :
        \E e \in {x \in AuditedLogin(v, current_center_id, reset_rows, TRUE)
                        : x.center = r.center} :
            Serve("login", r, e, writes_ok)
    /\ UNCHANGED tokens_issued

AuditLogoutPost ==
    /\ AuditIdleNow
    /\ \E writes_ok \in BOOLEAN :
        \E v \in {LogoutView(users, session, now)} :
        \E r \in AuditedLogout(v, reset_rows, writes_ok),
           e \in AuditedLogout(v, reset_rows, TRUE) :
            Serve("logout", r, e, writes_ok)
    /\ UNCHANGED tokens_issued

AuditPasswordChangePost ==
    /\ AuditIdleNow
    /\ \E old_password \in Passwords, new_password \in Passwords, writes_ok \in BOOLEAN :
        \E v \in {PasswordChangeRequiredView(users, session, old_password, new_password, now)} :
        \E r \in AuditedPasswordChange(v, current_center_id, reset_rows, writes_ok),
           e \in AuditedPasswordChange(v, current_center_id, reset_rows, TRUE) :
            Serve("password_change", r, e, writes_ok)
    /\ UNCHANGED tokens_issued

AuditCenterSwitchPost ==
    /\ AuditIdleNow
    /\ \E c \in CenterIds, writes_ok \in BOOLEAN :
        \E r \in center_switch_view(users, session, current_center_id, reset_rows,
                                    c, now, writes_ok),
           e \in center_switch_view(users, session, current_center_id, reset_rows,
                                    c, now, TRUE) :
            Serve("center_switch", r, e, writes_ok)
    /\ UNCHANGED tokens_issued

AuditOtherRequest ==
    /\ AuditIdleNow
    /\ \E method \in {"GET", "POST"}, suspicious \in BOOLEAN, writes_ok \in BOOLEAN :
        \E r \in ProcessRequest(users, session, current_center_id, reset_rows,
                                method, suspicious, now, writes_ok),
           e \in ProcessRequest(users, session, current_center_id, reset_rows,
                                method, suspicious, now, TRUE) :
            Serve("request", r, e, writes_ok)
    /\ UNCHANGED tokens_issued

AuditResetRequestPost ==
    /\ AuditIdleNow
    /\ tokens_issued < MaxTokens
    /\ \E u \in Users, writes_ok \in BOOLEAN :
        \E r \in AuditedResetRequest(users, session, current_center_id, reset_rows,
                                     u, tokens_issued + 1, now, writes_ok),
           e \in AuditedResetRequest(users, session, current_center_id, reset_rows,
                                     u, tokens_issued + 1, now, TRUE) :
            Serve("reset_request", r, e, writes_ok)
    /\ tokens_issued' = tokens_issued + 1

AuditResetConfirmPost ==
    /\ AuditIdleNow
    /\ \E token \in 1..tokens_issued, new_password \in Passwords, writes_ok \in BOOLEAN :
        \E r \in AuditedResetConfirm(users, session, current_center_id, reset_rows,
                                     token, new_password, now, writes_ok),
           e \in AuditedResetConfirm(users, session, current_center_id, reset_rows,
                                     token, new_password, now, TRUE) :
            Serve("reset_confirm", r, e, writes_ok)
    /\ UNCHANGED tokens_issued

AuditTrailAdminPost ==
    /\ AuditIdleNow
    /\ \E kind \in {"admin_add", "admin_change", "admin_delete"}, i \in 1..Len(audit_trail) :
        \E r \in {AuditTrailAdminView(audit_trail, kind, i, now)} :
        /\ Len(r.trail) <= MaxAudit
        /\ audit_trail' = r.trail
        /\ audit_result' = [op |-> kind, write_ok |-> TRUE, status |-> r.status,
                            expected |-> r.status, same_state |-> TRUE,
                            served |-> audit_result.served + 1]
    /\ UNCHANGED <<now, users, session, current_center_id, reset_rows, tokens_issued,
                   auditFrame>>

\* The response of the audited request has been sent.
AuditRespond ==
    /\ audit_result.op # "none"
    /\ audit_result' = [NoAuditResult EXCEPT !.served = audit_result.served]
    /\ UNCHANGED <<now, users, session, current_center_id, reset_rows, tokens_issued,
                   audit_trail, auditFrame>>

\* Time passes between two requests.
AuditTick ==
    /\ audit_result.op = "none"
    /\ now < MaxTime
    /\ now' = now + 1
    /\ UNCHANGED <<authVars, extVars>>

NextAudit ==
    \/ AuditTick
    \/ AuditLoginPost
    \/ AuditLogoutPost
    \/ AuditPasswordChangePost
    \/ AuditCenterSwitchPost
    \/ AuditOtherRequest
    \/ AuditResetRequestPost
    \/ AuditResetConfirmPost
    \/ AuditTrailAdminPost
    \/ AuditRespond

SpecAudit == InitAudit /\ [][NextAudit]_vars

\* C14: the audit trail is append-only: every step of the system leaves each
\* existing AuditTrail row in place and unchanged, its timestamp included; a
\* step can only add rows after them.
C14_AuditTrailAppendOnly ==
    [][/\ Len(audit_trail') >= Len(audit_trail)
       /\ \A i \in 1..Len(audit_trail) : audit_trail'[i] = audit_trail[i]]_vars

\* Rows written at different times are in the trail, and a change or delete
\* request of the admin site has been answered.
C14_Witness ==
    /\ Len(audit_trail) >= 2
    /\ audit_trail[1].timestamp < audit_trail[Len(audit_trail)].timestamp
    /\ audit_result.op \in {"admin_change", "admin_delete"}

AbortableOps == {"login", "logout", "center_switch", "request"}

\* C15: when the audit writes of a login, logout, center switch or other
\* request fail, the caller gets the result it gets when they succeed, the
\* accounts and the session are left as they are left then, and no server
\* error is returned.
C15_AuditFailureNeverAborts ==
    (audit_result.op \in AbortableOps /\ ~audit_result.write_ok)
        => /\ audit_result.status = audit_result.expected
           /\ audit_result.same_state
           /\ audit_result.status # "server_error"

(***************************************************************************)
(* C16: the login form answers a wrong password on an existing account as  *)
(* it answers an identifier that matches no account: both attempts end in  *)
(* the one outcome invalid_credentials, so the response does not tell      *)
(* whether the identifier exists.  Stated for the accounts that are        *)
(* active and not locked.                                                  *)
(***************************************************************************)
C16_NoAccountEnumeration ==
    (/\ last.op = "form"
     /\ LoginAttempt
     /\ \/ last.target = NOBODY
        \/ WrongPassword /\ last.before.is_active /\ ~LockedBefore)
        => last.outcome = "invalid_credentials"

(***************************************************************************)
(* Emergency access.  GERIATRIC_ADMIN_SETTINGS may hold                    *)
(* EMERGENCY_ACCESS_ENABLED and EMERGENCY_ACCESS_CODE; "unset" stands for  *)
(* a missing key, "" for the empty string, and the emergency_code "none"   *)
(* for a call without the argument.                                        *)
(***************************************************************************)
ConfiguredCodes == {"unset", "", "code1"}

EmergencyCodes == {"none", "", "code1", "code2"}

_is_emergency_access_enabled(settings) == settings.enabled

\* Mutant: any configured value, the empty string included, is a code.
_verify_emergency_code_equal_only(settings, code) == code = settings.code

\* expected_code and code == expected_code
_verify_emergency_code(settings, code) ==
    settings.code \notin {"unset", ""} /\ code = settings.code

_log_emergency_access_attempt(reason) == <<Entry("LOGIN", reason, "emergency_backend")>>

\* User.objects.get(username=username, is_superuser=True, is_active=True)
EmergencyMatches(db, username) ==
    {u \in Users : username_of[u] = username /\ db[u].is_superuser /\ db[u].is_active}

\* EmergencyAccessBackend.authenticate
EmergencyAuthenticate(db, settings, username, password, emergency_code) ==
    LET found == EmergencyMatches(db, username) IN
    IF ~_is_emergency_access_enabled(settings) THEN
        Result(NOBODY, db, <<>>, {})
    ELSE IF emergency_code = "none" THEN
        Result(NOBODY, db, <<>>, {})
    ELSE IF ~_verify_emergency_code(settings, emergency_code) THEN
        Result(NOBODY, db, _log_emergency_access_attempt("invalid_emergency_code"), {})
    ELSE IF found = {} THEN
        Result(NOBODY, db, _log_emergency_access_attempt("user_not_found"), {})
    ELSE
    LET u == CHOOSE x \in found : TRUE IN
    IF ~check_password(db[u], password) THEN
        Result(NOBODY, db, _log_emergency_access_attempt("invalid_password"), {})
    ELSE
        Result(u, db, _log_emergency_access_attempt("emergency_access_granted"), {})

\* A deployment with some emergency access settings.
InitEmergency ==
    /\ now = 0
    /\ users \in [Users -> {r \in InitRows : ~r.must_change_password
                                             /\ ~r.is_multi_center_admin}]
    /\ user_centers = [u \in Users |-> Centers]
    /\ session = NoSession
    /\ last = NoOp
    /\ pc = [p \in Procs |-> "idle"]
    /\ loaded = [p \in Procs |-> NoRow]
    /\ lock_transitions = 0
    /\ ResetIdle
    /\ CenterIdle
    /\ AuditIdle
    /\ emergency \in [enabled : BOOLEAN, code : ConfiguredCodes, emergency_code : {"none"}]
    /\ RestIdle

\* EmergencyAccessBackend().authenticate(request, username, password, emergency_code)
EmergencyBackendAuthenticate ==
    /\ Idle
    /\ \E username \in Identifiers, password \in Passwords, emergency_code \in EmergencyCodes :
        \E r \in {EmergencyAuthenticate(users, emergency, username, password,
                                         emergency_code)} :
        /\ users' = r.db
        /\ last' = Op("emergency", username, password, "none", r.user,
                      IF r.user = NOBODY THEN "rejected" ELSE "returned", r.log, FALSE)
        /\ emergency' = [emergency EXCEPT !.emergency_code = emergency_code]
    /\ UNCHANGED <<now, user_centers, session, pc, loaded, lock_transitions>>
    /\ UNCHANGED <<resetVars, centerVars, auditVars, restVars>>

\* The other attempts leave the emergency code of the last emergency attempt.
NextEmergency ==
    \/ Tick
    \/ Respond
    \/ BackendAuthenticate
    \/ EmergencyBackendAuthenticate

SpecEmergency == InitEmergency /\ [][NextEmergency]_vars

\* The account the emergency backend looks the username up to.
EmergencyTarget ==
    IF \E u \in Users : username_of[u] = last.identifier
    THEN CHOOSE u \in Users : username_of[u] = last.identifier
    ELSE NOBODY

(***************************************************************************)
(* C17: EmergencyAccessBackend.authenticate returns a user exactly when    *)
(* emergency access is enabled, the supplied emergency code equals the     *)
(* non-empty configured code, the username is that of an active superuser  *)
(* account and the password is its password; the user returned is that     *)
(* account, whether or not it is locked or has two-factor enabled; and the *)
(* call leaves failed_login_attempts, last_failed_login and                *)
(* account_locked_until of every account as they were.                      *)
(***************************************************************************)
C17_EmergencyAccessConditions ==
    (last.op = "emergency")
        => LET u == EmergencyTarget
               granted == /\ emergency.enabled
                          /\ emergency.code \notin {"unset", ""}
                          /\ emergency.emergency_code = emergency.code
                          /\ u # NOBODY
                          /\ users[u].is_active
                          /\ users[u].is_superuser
                          /\ last.password = users[u].password
           IN  /\ (last.user # NOBODY) <=> granted
               /\ last.user # NOBODY => last.user = u
               /\ last.target # NOBODY =>
                    /\ After.failed_login_attempts = last.before.failed_login_attempts
                    /\ After.last_failed_login = last.before.last_failed_login
                    /\ After.account_locked_until = last.before.account_locked_until

\* Emergency access was granted to a locked account with two-factor enabled.
C17_Witness ==
    /\ last.op = "emergency"
    /\ last.user # NOBODY
    /\ is_account_locked(users[last.user], now)
    /\ users[last.user].two_factor_enabled

(***************************************************************************)
(* Accounts and their identifiers.  username (AbstractUser) and            *)
(* employee_id are each unique=True; the creation and change forms are     *)
(* ModelForms, whose validate_unique checks each unique field on its own,  *)
(* as the database does.                                                   *)
(***************************************************************************)
IdStrings == {"alice", "E001", "E002"}

\* unique=True on username and on employee_id, checked against every other row.
validate_unique(acc, a, username, employee_id) ==
    \A b \in AccountSlots \ {a} :
        acc[b].exists => /\ acc[b].username # username
                         /\ acc[b].employee_id # employee_id

\* User.objects.get(Q(username=x) | Q(employee_id=x), is_active=True)
IdentifierMatches(acc, x) ==
    {a \in AccountSlots : /\ acc[a].exists
                          /\ acc[a].is_active
                          /\ (acc[a].username = x \/ acc[a].employee_id = x)}

InitAccounts ==
    /\ now = 0
    /\ AuthIdle
    /\ ResetIdle
    /\ CenterIdle
    /\ AuditIdle
    /\ EmergencyIdle
    /\ accounts = [a \in AccountSlots |-> NoAccount]
    /\ ctx_request = [t \in CtxThreads |-> NoContext]
    /\ ctx_locals = [t \in CtxThreads |-> NoContext]
    /\ ctx_entry = NoEntry

\* CustomUserCreationForm.save (also the add form of UserAdmin)
AccountCreate ==
    /\ \E a \in AccountSlots, username \in IdStrings, employee_id \in IdStrings :
        /\ ~accounts[a].exists
        /\ validate_unique(accounts, a, username, employee_id)
        /\ accounts' = [accounts EXCEPT ![a] =
                [exists |-> TRUE, username |-> username, employee_id |-> employee_id,
                 is_active |-> TRUE]]
    /\ UNCHANGED <<now, authVars, resetVars, centerVars, auditVars, emergency, contextVars>>

\* CustomUserChangeForm.save (also the change form of UserAdmin)
AccountEdit ==
    /\ \E a \in AccountSlots, username \in IdStrings, employee_id \in IdStrings,
          is_active \in BOOLEAN :
        /\ accounts[a].exists
        /\ validate_unique(accounts, a, username, employee_id)
        /\ accounts' = [accounts EXCEPT ![a] =
                [exists |-> TRUE, username |-> username, employee_id |-> employee_id,
                 is_active |-> is_active]]
    /\ UNCHANGED <<now, authVars, resetVars, centerVars, auditVars, emergency, contextVars>>

NextAccounts ==
    \/ AccountCreate
    \/ AccountEdit

SpecAccounts == InitAccounts /\ [][NextAccounts]_vars

(***************************************************************************)
(* C18: after any sequence of account creations and edits no identifier    *)
(* string matches two active accounts in the lookup                        *)
(* username = x OR employee_id = x.                                        *)
(***************************************************************************)
C18_IdentifierMatchesAtMostOne ==
    \A x \in IdStrings : Cardinality(IdentifierMatches(accounts, x)) <= 1

(***************************************************************************)
(* The request context.  Each worker thread serves one request at a time.  *)
(* middleware._thread_locals is a threading.local: every thread reads and  *)
(* writes its own attributes of it.  AuditMixin._create_audit_entry reads  *)
(* getattr(self, '_thread_locals', local()): an attribute of the model     *)
(* instance, else a fresh, empty local.                                    *)
(***************************************************************************)
Clients == {[ip_address |-> "ip1", user_agent |-> "ua1"],
            [ip_address |-> "ip2", user_agent |-> "ua2"]}

Serving(t) == ctx_request[t].ip_address # NONE

\* hasattr(model_class, '_thread_locals'): no model class and no base of one
\* defines the attribute, so AuditMiddleware.process_request never assigns it.
ModelHasThreadLocals == FALSE

\* The storage _create_audit_entry reads in the thread of view.
instance_thread_locals(view) == IF ModelHasThreadLocals THEN view ELSE NoContext

\* AuditMixin._create_audit_entry, run by thread t.
_create_audit_entry(t, request, view) ==
    LET tl == instance_thread_locals(view) IN
    [thread |-> t, request |-> request, user |-> tl.user, center |-> tl.center,
     ip_address |-> tl.ip_address, user_agent |-> tl.user_agent]

InitContext ==
    /\ now = 0
    /\ AuthIdle
    /\ ResetIdle
    /\ CenterIdle
    /\ AuditIdle
    /\ EmergencyIdle
    /\ accounts = [a \in AccountSlots |-> NoAccount]
    /\ ctx_request = [t \in CtxThreads |-> NoContext]
    /\ ctx_locals = [t \in CtxThreads |-> NoContext]
    /\ ctx_entry = NoEntry

\* AuditMiddleware.process_request: the six attributes it sets on the thread's
\* _thread_locals; center is the one it finds for the session or the primary
\* assignment.
audit_process_request(tl, user, center, client, t) ==
    [user |-> user, center |-> center, ip_address |-> client.ip_address,
     user_agent |-> client.user_agent, request |-> "request", timestamp |-> t]

\* MultiCenterMiddleware.process_request, which runs next: for an authenticated
\* user, if hasattr(_thread_locals, 'center') or current_center, the center
\* becomes current_center.
multi_center_process_request(tl, user, current_center) ==
    IF user = NOBODY THEN tl
    ELSE IF tl.request # NONE \/ current_center # NONE
         THEN [tl EXCEPT !.center = current_center]
         ELSE tl

\* Mutant: the center stays in the storage.
del_thread_locals_but_center(tl) == [NoContext EXCEPT !.center = tl.center]

\* AuditMiddleware.process_response: del of each of the six attributes.
del_thread_locals(tl) == NoContext

\* The request phase of the middleware in thread t.  The request is kept with
\* the center MultiCenterMiddleware resolves for it (request.current_center).
CtxProcessRequest(t) ==
    /\ ~Serving(t)
    /\ \E user \in Users \cup {NOBODY}, audit_center \in CenterIds \cup {NONE},
          current_center \in CenterIds \cup {NONE}, client \in Clients :
        /\ user = NOBODY => (audit_center = NONE /\ current_center = NONE)
        /\ ctx_request' = [ctx_request EXCEPT ![t] =
                [user |-> user, center |-> current_center,
                 ip_address |-> client.ip_address, user_agent |-> client.user_agent,
                 request |-> "request", timestamp |-> now]]
        /\ ctx_locals' = [ctx_locals EXCEPT ![t] =
                multi_center_process_request(
                    audit_process_request(@, user, audit_center, client, now),
                    user, current_center)]
    /\ UNCHANGED <<now, authVars, resetVars, centerVars, auditVars, emergency, accounts,
                   ctx_entry>>

\* A view saves or deletes an instance of a model that has AuditMixin.
CtxModelSave(t) ==
    /\ Serving(t)
    /\ ctx_entry' = _create_audit_entry(t, ctx_request[t], ctx_locals[t])
    /\ UNCHANGED <<now, authVars, resetVars, centerVars, auditVars, emergency, accounts,
                   ctx_request, ctx_locals>>

\* The view has returned or raised (a 500 response): the response passes
\* AuditMiddleware.process_response in thread t, which deletes the attributes.
CtxProcessResponse(t) ==
    /\ Serving(t)
    /\ ctx_request' = [ctx_request EXCEPT ![t] = NoContext]
    /\ ctx_locals' = [ctx_locals EXCEPT ![t] = del_thread_locals(@)]
    /\ UNCHANGED <<now, authVars, resetVars, centerVars, auditVars, emergency, accounts,
                   ctx_entry>>

NextContext ==
    \E t \in CtxThreads :
        \/ CtxProcessRequest(t)
        \/ CtxModelSave(t)
        \/ CtxProcessResponse(t)

SpecContext == InitContext /\ [][NextContext]_vars

(***************************************************************************)
(* C20: an audit entry that AuditMixin creates during a request of an      *)
(* authenticated user carries the user, the center, the IP address and the *)
(* user agent of that request (and so never those of a request served by   *)
(* another thread at the same time).                                       *)
(***************************************************************************)
C20_EntryCarriesRequestContext ==
    (ctx_entry.thread # 0 /\ ctx_entry.request.user # NOBODY)
        => /\ ctx_entry.user = ctx_entry.request.user
           /\ ctx_entry.center = ctx_entry.request.center
           /\ ctx_entry.ip_address = ctx_entry.request.ip_address
           /\ ctx_entry.user_agent = ctx_entry.request.user_agent

(***************************************************************************)
(* C21: one login attempt with a wrong password on an existing, active,    *)
(* unlocked account raises the stored failed_login_attempts by exactly 1,  *)
(* whether the attempt goes through the backend alone, through the chain   *)
(* of AUTHENTICATION_BACKENDS, or through the login form.                  *)
(***************************************************************************)
C21_WrongPasswordCountsOnce ==
    (WrongPassword /\ last.op \in {"backend", "chain", "form"}
        /\ last.before.is_active /\ ~LockedBefore)
        => After.failed_login_attempts = last.before.failed_login_attempts + 1

(***************************************************************************)
(* C22: a lock is temporary.  For an account that wrong-password attempts  *)
(* brought to MAX_LOGIN_ATTEMPTS and locked, once now has reached          *)
(* account_locked_until a login attempt with the correct password is       *)
(* accepted and sets failed_login_attempts to 0.  Stated for an account    *)
(* that is accepted when it has never been locked: active, with a center   *)
(* (or superuser, or multi-center admin) and, through the login form,      *)
(* with a password that need not be changed.                               *)
(***************************************************************************)
LockExpiredBefore ==
    /\ OnAccount
    /\ last.before.account_locked_until # NULL
    /\ now >= last.before.account_locked_until
    /\ last.before.failed_login_attempts >= MAX_LOGIN_ATTEMPTS

AcceptableBefore ==
    /\ last.before.is_active
    /\ last.before.is_superuser \/ last.before.is_multi_center_admin
            \/ HasActiveCenter(last.target)
    /\ last.op = "form" => ~MustChange(last.before)

C22_LockIsTemporary ==
    (CorrectPassword /\ last.op \in {"backend", "chain", "form"}
        /\ LockExpiredBefore /\ AcceptableBefore)
        => /\ last.user = last.target
           /\ After.failed_login_attempts = 0
           /\ last.op = "form" => last.outcome \in {"logged_in", "redirect_2fa"}

\* The login form signed in an account whose lock had expired.
C22_Witness ==
    /\ CorrectPassword /\ last.op = "form"
    /\ LockExpiredBefore /\ AcceptableBefore
    /\ last.session_issued
    /\ After.failed_login_attempts = 0

(***************************************************************************)
(* C23: a listing of center-scoped records made for a user returns exactly *)
(* the active records whose center the user may access per                 *)
(* has_center_access, and CenterAwareManager.for_user_centers and          *)
(* MultiCenterMixin.get_for_user_centers return the same set for every     *)
(* user, multi-center admins included.                                     *)
(***************************************************************************)
AccessibleRecords(u) ==
    {r \in CenterRecords : r.is_active /\ has_center_access(assignments, u, r.center)}

C23_RecordFiltersAgree ==
    resolved.query_user # NOBODY
        => /\ resolved.for_user_centers = resolved.get_for_user_centers
           /\ resolved.for_user_centers = AccessibleRecords(resolved.query_user)
           /\ resolved.get_for_user_centers = AccessibleRecords(resolved.query_user)

(***************************************************************************)
(* The change form of UserAdmin.  Its fieldsets list account_locked_until  *)
(* and its readonly_fields do not (they hold failed_login_attempts and     *)
(* last_failed_login), so a staff user of the admin site edits the lock    *)
(* time of an account as a form field; is_active is editable as well.      *)
(* The other editable fields are submitted as the form showed them.        *)
(***************************************************************************)
LockTimes == {NULL} \cup (0..(MaxTime + LockoutTicks))

UserAdminFields == {"is_active", "account_locked_until"}

UserAdminChange(db, u, is_active, account_locked_until) ==
    Save(db, u, [db[u] EXCEPT !.is_active = is_active,
                              !.account_locked_until = account_locked_until],
         UserAdminFields)

\* One account with a center, as created by create_user; nobody signed in.
InitAdmin ==
    /\ now = 0
    /\ users \in [Users -> {r \in InitRows : /\ r.is_active
                                             /\ ~r.is_superuser
                                             /\ ~r.is_multi_center_admin
                                             /\ ~r.two_factor_enabled
                                             /\ ~r.must_change_password}]
    /\ user_centers = [u \in Users |-> Centers]
    /\ session = NoSession
    /\ last = NoOp
    /\ pc = [p \in Procs |-> "idle"]
    /\ loaded = [p \in Procs |-> NoRow]
    /\ lock_transitions = 0
    /\ InitExt

\* POST of the change form of the admin site for a User.  The accounts edited
\* are those with at most MaxCounted failed attempts, which keeps the counter
\* finite.
UserAdminChangePost ==
    /\ Idle
    /\ \E u \in Users, is_active \in BOOLEAN, account_locked_until \in LockTimes :
        /\ users[u].failed_login_attempts <= MaxCounted
        /\ users' = UserAdminChange(users, u, is_active, account_locked_until)
        /\ last' = Op("admin_change", username_of[u], "pw1", "none", NOBODY, "saved",
                      <<>>, FALSE)
    /\ UNCHANGED <<now, user_centers, session, pc, loaded, lock_transitions>>
    /\ UNCHANGED extVars

NextAdmin ==
    \/ Tick
    \/ Respond
    \/ BackendAuthenticate
    \/ ChainLogin
    \/ LoginFormPost
    \/ LogoutPost
    \/ UserAdminChangePost

SpecAdmin == InitAdmin /\ [][NextAdmin]_vars

(***************************************************************************)
(* C24: account_locked_until gets a value only from a failed login attempt *)
(* that brought failed_login_attempts to MAX_LOGIN_ATTEMPTS or above, and  *)
(* the step that sets it leaves last_failed_login at the time of that      *)
(* attempt; no other operation sets account_locked_until.                  *)
(***************************************************************************)
C24_LockSetOnlyByThresholdFailure ==
    [][\A u \in Users :
        (/\ users'[u].account_locked_until # users[u].account_locked_until
         /\ users'[u].account_locked_until # NULL)
            => /\ last'.op \in LoginOps
               /\ last'.target = u
               /\ last'.password # users[u].password
               /\ users'[u].failed_login_attempts >= MAX_LOGIN_ATTEMPTS
               /\ users'[u].last_failed_login = now
               /\ users'[u].account_locked_until = now + LockoutTicks]_vars

(***************************************************************************)
(* C25: the lockout bookkeeping of a failed attempt is persisted as a      *)
(* whole or not at all, also when the attempt is abandoned: once no        *)
(* attempt is between two of its writes, a stored account_locked_until     *)
(* comes with the counter that reached MAX_LOGIN_ATTEMPTS and with the     *)
(* last_failed_login of that attempt.                                      *)
(***************************************************************************)
AtRest == \A p \in Procs : pc[p] \in {"start", "rejected_locked", "done", "abandoned"}

C25_BookkeepingAtomic ==
    AtRest
        => \A u \in Users :
            users[u].account_locked_until # NULL
                => /\ users[u].failed_login_attempts >= MAX_LOGIN_ATTEMPTS
                   /\ users[u].last_failed_login # NULL

\* AuditTrail.ACTION_CHOICES
ACTION_CHOICES == {"CREATE", "UPDATE", "DELETE", "VIEW", "LOGIN", "LOGOUT", "EXPORT", "IMPORT"}

(***************************************************************************)
(* C26: every row of the audit trail has an action of ACTION_CHOICES; in   *)
(* particular the rows of a password-reset request and of a password-reset *)
(* completion.                                                             *)
(***************************************************************************)
C26_ActionsEnumerated ==
    \A i \in DOMAIN audit_trail : audit_trail[i].action \in ACTION_CHOICES

(***************************************************************************)
(* C27: after MultiCenterMiddleware has processed a request of an          *)
(* authenticated user, request.current_center and the session's            *)
(* current_center_id are each either absent or an active center for which  *)
(* has_center_access(user, center) holds at that moment, after any         *)
(* sequence of session starts, center switches, assignment changes and     *)
(* center deactivations.                                                   *)
(***************************************************************************)
ActiveAndAccessible(u, c) ==
    c = NONE \/ (center_active[c] /\ has_center_access(assignments, u, c))

C27_CurrentCenterAccessible ==
    resolved.user # NOBODY
        => /\ ActiveAndAccessible(resolved.user, resolved.current_center)
           /\ ActiveAndAccessible(resolved.user, current_center_id)

GeriatricSession ==
    session.user # NOBODY /\ session.backend \in {"geriatric", "two_factor"}

C29_LockedSessionIsAnonymous ==
    (last.op = "form" /\ ~last.session_issued /\ GeriatricSession)
        => ((last.outcome = "already_authenticated")
                <=> (/\ users[session.user].is_active
                     /\ ~is_account_locked(users[session.user], now)))

\* The session's account was locked by failures after the sign-in, the lock
\* has expired, and the request is treated as authenticated again.
C29_Witness ==
    /\ last.op = "form" /\ GeriatricSession
    /\ last.outcome = "already_authenticated"
    /\ users[session.user].failed_login_attempts >= MAX_LOGIN_ATTEMPTS
    /\ users[session.user].account_locked_until # NULL
    /\ now >= users[session.user].account_locked_until

(***************************************************************************)
(* C30: an account holds at most one valid password-reset token at any     *)
(* time: once generate_password_reset_token has stored a newer token's     *)
(* hash, verify_password_reset_token rejects every token issued earlier    *)
(* for the account, and it rejects every token once the time is past the   *)
(* stored expiry.                                                          *)
(***************************************************************************)
IssuedTokens == 1..tokens_issued

ValidTokens(u) ==
    {token \in IssuedTokens : verify_password_reset_token(reset_rows[u], token, now)}

C30_OneValidResetToken ==
    \A u \in Users :
        /\ Cardinality(ValidTokens(u)) <= 1
        /\ \A token \in IssuedTokens : token < tokens_issued => token \notin ValidTokens(u)
        /\ (reset_rows[u].password_reset_token_expires # NULL
                /\ now > reset_rows[u].password_reset_token_expires)
            => ValidTokens(u) = {}

\* Two tokens were issued for the account; only the later one verifies, and
\* a confirmation with the earlier one has ended in the invalid-link redirect.
C30_Witness ==
    /\ tokens_issued = 2
    /\ ValidTokens("u1") = {2}
    /\ \E p \in ResetProcs : rtoken[p] = 1 /\ rpc[p] = "invalid_link"

=============================================================================
